---- MODULE Spec2Model ----
(***************************************************************************)
(* Adaptive radix tree of src/src/art/mod.rs (struct ART and its node      *)
(* family) driven through the SequentialMap interface, next to the         *)
(* reference map of the sequential stress test (src/tests/map.rs).         *)
(*                                                                         *)
(* Heap objects live in the sequence heap; the address of an object is its *)
(* index.  A handle (struct Node) is a record [addr, tag]: the pointer     *)
(* word split into its address bits and its three tag bits.  Arrays are    *)
(* functions on 0..n-1, as in the source; key byte i of a key is           *)
(* keys[i + 1] because TLA+ sequences start at 1.                          *)
(*                                                                         *)
(* Spec drives a tree through new, insert, lookup, remove and drop.        *)
(* NodeSpec drives one node of the family, behind the handle in root,      *)
(* through the calls of NodeOps and through Node::extend and Node::shrink. *)
(* PathSpec drives a tree that has a node with a compressed path through   *)
(* insert, lookup and Node::prefix_match.                                  *)
(***************************************************************************)
EXTENDS Integers, Sequences, FiniteSets, TLC

\* ------------------------------------------------------------------ bounds

\* most inserts of a key the reference map does not hold yet, per run
MaxOps == 2

\* values are 1..MaxVal
MaxVal == 2

\* ------------------------------------------------------------------ inputs

Values == 1..MaxVal

KeyEmpty == <<>>
KeyA == <<97>>
KeyAB == <<97, 98>>
KeyABC == <<97, 98, 99>>
KeyABCD == <<97, 98, 99, 100>>
KeyB == <<98>>
\* "abcdefghijklmnop" and "abcdefghijklmnoq": common prefix of 15 bytes
KeyLongP == [i \in 1..16 |-> 96 + i]
KeyLongQ == [i \in 1..16 |-> IF i = 16 THEN 113 ELSE 96 + i]

\* the keys handed to insert
InsertKeys == {KeyEmpty, KeyA, KeyAB, KeyABC, KeyB, KeyLongP, KeyLongQ}

\* the keys handed to lookup and remove
Keys == InsertKeys \cup {KeyABCD}

\* ------------------------------------------------------------- data model

PREFIX_LEN == 12

\* the content of memory obtained from mem::uninitialized()
Uninit == -1

\* cfg(debug_assertions): the profile the tests of the repository run under
debug_assertions == TRUE

Byte == 0..255

\* Node::null(): pointer word 0, whose tag bits read NodeType::Value
Node_null == [addr |-> 0, tag |-> "Value"]

Node_is_null(h) == h.addr = 0

\* an array slot that was never written
UninitNode == [addr |-> Uninit, tag |-> "Uninit"]

NodeHeader_default == [len |-> 0, prefix |-> [i \in 0..(PREFIX_LEN - 1) |-> Uninit]]

NodeV_new(key, value) == [kind |-> "Value", key |-> key, value |-> value]

Node4_default ==
    [kind |-> "Node4", header |-> NodeHeader_default, len |-> 0,
     keys |-> [i \in 0..3 |-> Uninit], children |-> [i \in 0..3 |-> UninitNode]]

Node16_default ==
    [kind |-> "Node16", header |-> NodeHeader_default, len |-> 0,
     keys |-> [i \in 0..15 |-> Uninit], children |-> [i \in 0..15 |-> UninitNode]]

Node48_default ==
    [kind |-> "Node48", header |-> NodeHeader_default, len |-> 0,
     keys |-> [b \in Byte |-> 255], children |-> [i \in 0..47 |-> Node_null]]

Node256_default ==
    [kind |-> "Node256", header |-> NodeHeader_default, len |-> 0,
     children |-> [b \in Byte |-> Node_null]]

\* Node::new: Box::into_raw(Box::new(node)) | node_type, on the heap as it is
Node_new(heap, node, node_type) ==
    [heap |-> Append(heap, node), node |-> [addr |-> Len(heap) + 1, tag |-> node_type]]

\* Encodable for String: the bytes of the string; keys are given as bytes
encode(key) == key

\* ------------------------------------------------------------ node shapes

\* lookup's answer when the byte has no child
NotFound == -1

\* util::slice_insert: shift slice[index..n-2] one place up, write value at index
slice_insert(arr, n, index, value) ==
    [i \in DOMAIN arr |->
        IF i < index \/ i >= n THEN arr[i]
        ELSE IF i = index THEN value
        ELSE arr[i - 1]]

\* the first index below len whose key byte is not Ordering::Greater, else len
RECURSIVE sorted_scan(_, _, _, _)
sorted_scan(keys, len, key, index) ==
    IF index >= len THEN len
    ELSE IF keys[index] = Uninit \/ key <= keys[index] THEN index
    ELSE sorted_scan(keys, len, key, index + 1)

\* Node4::insert and Node16::insert (the same text): cap is 4 or 16
sorted_insert(node, cap, key, h) ==
    LET index == sorted_scan(node.keys, node.len, key, 0) IN
    IF debug_assertions /\ node.len = cap THEN [node |-> node, res |-> "Panic"]
    ELSE IF index >= node.len THEN [node |-> node, res |-> "Err"]
    ELSE IF node.keys[index] = Uninit THEN [node |-> node, res |-> "UB"]
    ELSE IF node.keys[index] = key THEN [node |-> node, res |-> "Err"]
    ELSE IF node.len >= cap THEN [node |-> node, res |-> "UB"]
    ELSE [node |-> [node EXCEPT
                      !.len = node.len + 1,
                      !.keys = slice_insert(node.keys, node.len + 1, index, key),
                      !.children = slice_insert(node.children, node.len + 1, index, h)],
          res |-> "Ok"]

Node4_insert(node, key, h) == sorted_insert(node, 4, key, h)

Node16_insert(node, key, h) == sorted_insert(node, 16, key, h)

\* Node4::lookup and Node16::lookup: the first index below len holding key
RECURSIVE sorted_lookup(_, _, _)
sorted_lookup(node, key, index) ==
    IF index >= node.len THEN NotFound
    ELSE IF node.keys[index] = key THEN index
    ELSE sorted_lookup(node, key, index + 1)

Node4_lookup(node, key) == sorted_lookup(node, key, 0)

Node16_lookup(node, key) == sorted_lookup(node, key, 0)

\* an insert that takes the slot of a byte that has a child
Node48_insert_overwrite(node, key, h) ==
    IF debug_assertions /\ node.len = 48 THEN [node |-> node, res |-> "Panic"]
    ELSE IF node.keys[key] # 255
         THEN [node |-> [node EXCEPT !.children[node.keys[key]] = h], res |-> "Ok"]
    ELSE IF node.len >= 48 THEN [node |-> node, res |-> "UB"]
    ELSE [node |-> [node EXCEPT
                      !.children[node.len] = h,
                      !.keys[key] = node.len,
                      !.len = node.len + 1],
          res |-> "Ok"]

Node48_insert(node, key, h) ==
    IF debug_assertions /\ node.len = 48 THEN [node |-> node, res |-> "Panic"]
    ELSE IF node.keys[key] # 255 THEN [node |-> node, res |-> "Err"]
    ELSE IF node.len >= 48 THEN [node |-> node, res |-> "UB"]
    ELSE [node |-> [node EXCEPT
                      !.children[node.len] = h,
                      !.keys[key] = node.len,
                      !.len = node.len + 1],
          res |-> "Ok"]

Node48_lookup(node, key) ==
    IF node.keys[key] = 255 THEN NotFound ELSE node.keys[key]

\* the occupancy count is left as it was
Node256_insert(node, key, h) ==
    IF Node_is_null(node.children[key])
    THEN [node |-> [node EXCEPT !.children[key] = h], res |-> "Ok"]
    ELSE [node |-> node, res |-> "Err"]

Node256_lookup(node, key) ==
    IF Node_is_null(node.children[key]) THEN NotFound ELSE key

Node4_is_full(node) == node.len = 4

Node16_is_full(node) == node.len = 16

Node48_is_full(node) == node.len = 48

\* a Node256 that reports itself full at any count
Node256_is_full_le(node) == node.len <= 256

Node256_is_full(node) == node.len = 256

\* dyn NodeOps: Node::deref picks the implementation by the tag of the handle
NodeOps_is_full(tag, node) ==
    CASE tag = "Node4" -> Node4_is_full(node)
      [] tag = "Node16" -> Node16_is_full(node)
      [] tag = "Node48" -> Node48_is_full(node)
      [] tag = "Node256" -> Node256_is_full(node)

\* the index in node.children of the child for key, or NotFound
NodeOps_lookup(tag, node, key) ==
    CASE tag = "Node4" -> Node4_lookup(node, key)
      [] tag = "Node16" -> Node16_lookup(node, key)
      [] tag = "Node48" -> Node48_lookup(node, key)
      [] tag = "Node256" -> Node256_lookup(node, key)

NodeOps_insert(tag, node, key, h) ==
    CASE tag = "Node4" -> Node4_insert(node, key, h)
      [] tag = "Node16" -> Node16_insert(node, key, h)
      [] tag = "Node48" -> Node48_insert(node, key, h)
      [] tag = "Node256" -> Node256_insert(node, key, h)

\* util::slice_remove: take slice[index] out and shift slice[index+1..n-1] one
\* place down; the last place keeps the bits it had
slice_remove(arr, n, index) ==
    [i \in DOMAIN arr |->
        IF i < index \/ i >= n - 1 THEN arr[i] ELSE arr[i + 1]]

\* Node4::update and Node16::update (the same text): out is the handle
\* returned, the old child in Ok and the new one in Err
sorted_update(node, key, h) ==
    LET index == sorted_lookup(node, key, 0) IN
    IF index = NotFound THEN [node |-> node, res |-> "Err", out |-> h]
    ELSE [node |-> [node EXCEPT !.children[index] = h],
          res |-> "Ok", out |-> node.children[index]]

Node4_update(node, key, h) == sorted_update(node, key, h)

Node16_update(node, key, h) == sorted_update(node, key, h)

Node48_update(node, key, h) ==
    LET index == node.keys[key] IN
    IF index = 255 THEN [node |-> node, res |-> "Err", out |-> h]
    ELSE [node |-> [node EXCEPT !.children[index] = h],
          res |-> "Ok", out |-> node.children[index]]

Node256_update(node, key, h) ==
    IF Node_is_null(node.children[key]) THEN [node |-> node, res |-> "Err", out |-> h]
    ELSE [node |-> [node EXCEPT !.children[key] = h],
          res |-> "Ok", out |-> node.children[key]]

\* Node4::remove and Node16::remove (the same text): the count goes down and
\* the slot is nulled; keys and children stay where they are
sorted_remove(node, key) ==
    LET index == sorted_lookup(node, key, 0) IN
    IF debug_assertions /\ node.len = 0 THEN [node |-> node, res |-> "Panic", out |-> Node_null]
    ELSE IF index = NotFound THEN [node |-> node, res |-> "Err", out |-> Node_null]
    ELSE [node |-> [node EXCEPT !.len = node.len - 1, !.children[index] = Node_null],
          res |-> "Ok", out |-> node.children[index]]

Node4_remove(node, key) == sorted_remove(node, key)

Node16_remove(node, key) == sorted_remove(node, key)

\* Node48::remove: the entry of key is cleared, the entries of the other
\* bytes keep the slot numbers they had.  An entry at or past len is outside
\* the slice mut_children() hands to slice_remove.
Node48_remove(node, key) ==
    LET index == node.keys[key] IN
    IF index = 255 THEN [node |-> node, res |-> "Err", out |-> Node_null]
    ELSE IF index >= node.len THEN [node |-> node, res |-> "UB", out |-> Node_null]
    ELSE [node |-> [node EXCEPT
                      !.children = slice_remove(node.children, node.len, index),
                      !.keys[key] = 255,
                      !.len = node.len - 1],
          res |-> "Ok", out |-> node.children[index]]

\* the occupancy count is left as it was
Node256_remove(node, key) ==
    IF Node_is_null(node.children[key]) THEN [node |-> node, res |-> "Err", out |-> Node_null]
    ELSE [node |-> [node EXCEPT !.children[key] = Node_null],
          res |-> "Ok", out |-> node.children[key]]

NodeOps_update(tag, node, key, h) ==
    CASE tag = "Node4" -> Node4_update(node, key, h)
      [] tag = "Node16" -> Node16_update(node, key, h)
      [] tag = "Node48" -> Node48_update(node, key, h)
      [] tag = "Node256" -> Node256_update(node, key, h)

NodeOps_remove(tag, node, key) ==
    CASE tag = "Node4" -> Node4_remove(node, key)
      [] tag = "Node16" -> Node16_remove(node, key)
      [] tag = "Node48" -> Node48_remove(node, key)
      [] tag = "Node256" -> Node256_remove(node, key)

Node4_is_shrinkable(node) == FALSE

Node16_is_shrinkable(node) == node.len <= 4

Node48_is_shrinkable(node) == node.len <= 16

Node256_is_shrinkable(node) == node.len <= 48

NodeOps_is_shrinkable(tag, node) ==
    CASE tag = "Node4" -> Node4_is_shrinkable(node)
      [] tag = "Node16" -> Node16_is_shrinkable(node)
      [] tag = "Node48" -> Node48_is_shrinkable(node)
      [] tag = "Node256" -> Node256_is_shrinkable(node)

\* --------------------------------------------------------------- growing

\* From<Node4> for Node16
Node16_from_Node4(node) ==
    [Node16_default EXCEPT
        !.header = node.header,
        !.len = node.len,
        !.keys = [i \in 0..15 |-> IF i < node.len THEN node.keys[i] ELSE Uninit],
        !.children = [i \in 0..15 |-> IF i < node.len THEN node.children[i] ELSE UninitNode]]

\* From<Node16> for Node48
Node48_from_Node16(node) ==
    [Node48_default EXCEPT
        !.keys = [b \in Byte |->
                    IF \E i \in 0..(node.len - 1) : node.keys[i] = b
                    THEN CHOOSE i \in 0..(node.len - 1) :
                            /\ node.keys[i] = b
                            /\ \A j \in (i + 1)..(node.len - 1) : node.keys[j] # b
                    ELSE 255],
        !.children = [i \in 0..47 |-> IF i < node.len THEN node.children[i] ELSE Node_null],
        !.header = node.header,
        !.len = node.len]

\* From<Node48> for Node256
Node256_from_Node48(node) ==
    [Node256_default EXCEPT
        !.children = [b \in Byte |->
                        IF node.keys[b] # 255 /\ node.keys[b] < 48
                        THEN node.children[node.keys[b]] ELSE Node_null],
        !.header = node.header,
        !.len = node.len]

\* -------------------------------------------------------------- shrinking

\* the bytes of the set present in ascending order: the order in which a
\* conversion walks a table of 256 entries
bytes_in_order(present) ==
    [i \in 1..Cardinality(present) |->
        CHOOSE b \in present : Cardinality({c \in present : c < b}) = i - 1]

\* the bytes of a Node48 whose index entry is not 0xff
Node48_bytes(node) == bytes_in_order({b \in Byte : node.keys[b] # 255})

\* the bytes of a Node256 whose child is not null
Node256_bytes(node) == bytes_in_order({b \in Byte : ~Node_is_null(node.children[b])})

\* From<Node16> for Node4
Node4_from_Node16(node) ==
    [Node4_default EXCEPT
        !.header = node.header,
        !.len = node.len,
        !.keys = [i \in 0..3 |-> IF i < node.len THEN node.keys[i] ELSE Uninit],
        !.children = [i \in 0..3 |-> IF i < node.len THEN node.children[i] ELSE UninitNode]]

\* From<Node48> for Node16: the i-th byte with an index entry goes to place i
\* (the places from 16 up are outside the new node)
Node16_from_Node48(node) ==
    LET bytes == Node48_bytes(node) IN
    [Node16_default EXCEPT
        !.header = node.header,
        !.len = node.len,
        !.keys = [i \in 0..15 |-> IF i < Len(bytes) THEN bytes[i + 1] ELSE Uninit],
        !.children = [i \in 0..15 |->
                        IF i < Len(bytes) THEN node.children[node.keys[bytes[i + 1]]]
                        ELSE UninitNode]]

\* From<Node256> for Node48: the i-th non-null child goes to slot i (the
\* slots from 48 up are outside the new node); the count walked up while
\* packing is then replaced by the count of the old node
Node48_from_Node256(node) ==
    LET bytes == Node256_bytes(node)
        slot(b) == CHOOSE i \in 0..(Len(bytes) - 1) : bytes[i + 1] = b
    IN [Node48_default EXCEPT
        !.keys = [b \in Byte |->
                    IF Node_is_null(node.children[b]) THEN 255 ELSE slot(b)],
        !.children = [i \in 0..47 |->
                        IF i < Len(bytes) THEN node.children[bytes[i + 1]] ELSE Node_null],
        !.header = node.header,
        !.len = node.len]

\* ------------------------------------------------------- handles in place

\* A place that holds a handle (a NonNull<Node<V>>): the root field of the
\* tree (parent = 0) or slot idx of the children of the object at parent.
RootPlace == [parent |-> 0, idx |-> 0]

ReadPlace(root, heap, cur) ==
    IF cur.parent = 0 THEN root ELSE heap[cur.parent].children[cur.idx]

WritePlace(root, heap, cur, h) ==
    IF cur.parent = 0
    THEN [root |-> h, heap |-> heap]
    ELSE [root |-> root, heap |-> [heap EXCEPT ![cur.parent].children[cur.idx] = h]]

\* the handle's tag names the kind of the object it addresses
WellTagged(heap, h) ==
    /\ h.addr \in 1..Len(heap)
    /\ heap[h.addr].kind = h.tag

\* Node::shrink on the handle at cur.  The new box takes the old tag bits;
\* the old box is read out with ptr::read and never freed.  A conversion that
\* packs more children than the new node has places writes past its arrays.
Node_shrink(root, heap, cur) ==
    LET h == ReadPlace(root, heap, cur)
        same == [root |-> root, heap |-> heap, res |-> "Ok"]
        shrunk(new) ==
            LET w == WritePlace(root, Append(heap, new), cur,
                                [addr |-> Len(heap) + 1, tag |-> h.tag])
            IN [root |-> w.root, heap |-> w.heap, res |-> "Ok"]
    IN IF h.tag = "Value" THEN same
       ELSE IF ~WellTagged(heap, h) THEN [same EXCEPT !.res = "UB"]
       ELSE IF ~NodeOps_is_shrinkable(h.tag, heap[h.addr]) THEN same
       ELSE CASE h.tag = "Node4" -> [same EXCEPT !.res = "Panic"]
              [] h.tag = "Node16" -> shrunk(Node4_from_Node16(heap[h.addr]))
              [] h.tag = "Node48" ->
                    IF Len(Node48_bytes(heap[h.addr])) > 16
                    THEN [same EXCEPT !.res = "UB"]
                    ELSE shrunk(Node16_from_Node48(heap[h.addr]))
              [] h.tag = "Node256" ->
                    IF Len(Node256_bytes(heap[h.addr])) > 48
                    THEN [same EXCEPT !.res = "UB"]
                    ELSE shrunk(Node48_from_Node256(heap[h.addr]))

\* an extend that takes the way of shrink
Node_extend_shrinks(root, heap, cur) == Node_shrink(root, heap, cur)

\* Node::extend on the handle at cur.  The new box takes the old tag bits;
\* the old box is read out with ptr::read and never freed.
Node_extend(root, heap, cur) ==
    LET h == ReadPlace(root, heap, cur)
        same == [root |-> root, heap |-> heap, res |-> "Ok"]
        grown(new) ==
            LET w == WritePlace(root, Append(heap, new), cur,
                                [addr |-> Len(heap) + 1, tag |-> h.tag])
            IN [root |-> w.root, heap |-> w.heap, res |-> "Ok"]
    IN IF h.tag = "Value" THEN same
       ELSE IF ~WellTagged(heap, h) THEN [same EXCEPT !.res = "UB"]
       ELSE IF ~NodeOps_is_full(h.tag, heap[h.addr]) THEN same
       ELSE CASE h.tag = "Node4" -> grown(Node16_from_Node4(heap[h.addr]))
              [] h.tag = "Node16" -> grown(Node48_from_Node16(heap[h.addr]))
              [] h.tag = "Node48" -> grown(Node256_from_Node48(heap[h.addr]))
              [] h.tag = "Node256" -> [same EXCEPT !.res = "Panic"]

\* --------------------------------------------------------- prefix matching

\* Node::prefix_match.  A header longer than the inline buffer makes
\* get_unchecked(..header.len) run past the 12 bytes (and get_any_child,
\* which would follow, is todo!()).
RECURSIVE prefix_scan(_, _, _, _)
prefix_scan(keys, header, depth, index) ==
    IF index >= header.len THEN [res |-> "Ok", at |-> 0]
    ELSE IF depth + index >= Len(keys) THEN [res |-> "Panic", at |-> 0]
    ELSE IF header.prefix[index] = Uninit THEN [res |-> "UB", at |-> 0]
    ELSE IF keys[depth + index + 1] # header.prefix[index]
         THEN [res |-> "Err", at |-> depth + index]
    ELSE prefix_scan(keys, header, depth, index + 1)

\* a prefix_match that answers the offset into the path where the bytes
\* differ, not the depth in the key
prefix_match_offset(keys, node, depth) ==
    LET r == IF node.header.len > PREFIX_LEN THEN [res |-> "UB", at |-> 0]
             ELSE prefix_scan(keys, node.header, depth, 0)
    IN IF r.res = "Err" THEN [r EXCEPT !.at = r.at - depth] ELSE r

prefix_match(keys, node, depth) ==
    IF node.header.len > PREFIX_LEN THEN [res |-> "UB", at |-> 0]
    ELSE prefix_scan(keys, node.header, depth, 0)

\* ------------------------------------------------------------ tree engine

\* a tree whose root is allocated by the first insert
ART_new_null == [heap |-> <<>>, node |-> Node_null]

\* ART::new
ART_new == Node_new(<<>>, Node256_default, "Node256")

\* The while loop of ART::insert.  stop tells how the loop ended: "end"
\* (depth reached keys.len()), "value" (left_or! broke on a terminal value),
\* "mismatch" (prefix_match failed), "nochild" (lookup_mut found no child).
RECURSIVE insert_descend(_, _, _, _, _)
insert_descend(root, heap, keys, cur, depth) ==
    LET h == ReadPlace(root, heap, cur)
        out(stop, prefix_len) ==
            [stop |-> stop, cur |-> cur, depth |-> depth, prefix_len |-> prefix_len]
    IN IF depth >= Len(keys) THEN out("end", 0)
       ELSE IF h.tag = "Value" THEN out("value", 0)
       ELSE IF ~WellTagged(heap, h) THEN out("UB", 0)
       ELSE LET node == heap[h.addr]
                pm == prefix_match(keys, node, depth)
                idx == NodeOps_lookup(h.tag, node, keys[depth + 1])
            IN IF pm.res \in {"Panic", "UB"} THEN out(pm.res, 0)
               ELSE IF pm.res = "Err" THEN out("mismatch", pm.at - depth)
               ELSE IF idx # NotFound
                    THEN insert_descend(root, heap, keys,
                                        [parent |-> h.addr, idx |-> idx],
                                        depth + 1 + node.header.len)
               ELSE out("nochild", node.header.len)

\* The split branch of ART::insert.  clone_from_slice needs a source of
\* exactly PREFIX_LEN bytes, and a matched length of PREFIX_LEN needs a
\* header longer than the inline buffer.
insert_split(root, heap, keys, depth, prefix_len) ==
    [root |-> root, heap |-> heap, out |-> 0,
     res |-> IF prefix_len = PREFIX_LEN /\ depth + prefix_len <= Len(keys)
             THEN "UB" ELSE "Panic"]

\* insert as an upsert: the terminal value reached takes the new value
insert_on_value_overwrite(root, heap, h, value) ==
    [root |-> root,
     heap |-> IF Node_is_null(h) THEN heap ELSE [heap EXCEPT ![h.addr].value = value],
     res |-> "Err", out |-> value]

\* Either::Right(_) => Err(value): the value goes back, nothing is written
insert_on_value(root, heap, h, value) ==
    [root |-> root, heap |-> heap, res |-> "Err", out |-> value]

\* The match at the end of ART::insert, on the handle at cur
insert_at(root, heap, keys, value, cur, depth, prefix_len) ==
    LET h == ReadPlace(root, heap, cur)
        node == heap[h.addr]
        new == Node_new(heap, NodeV_new(keys, value), "Value")
        ins == NodeOps_insert(h.tag, node, keys[depth + 1], new.node)
        end(hp, res, out) == [root |-> root, heap |-> hp, res |-> res, out |-> out]
    IN IF h.tag = "Value" THEN insert_on_value(root, heap, h, value)
       ELSE IF ~WellTagged(heap, h) THEN end(heap, "UB", 0)
       ELSE IF depth >= Len(keys) THEN end(heap, "Panic", 0)
       ELSE IF prefix_len # node.header.len
            THEN insert_split(root, heap, keys, depth, prefix_len)
       ELSE IF ins.res = "Ok"
            THEN end([new.heap EXCEPT ![h.addr] = ins.node], "Ok", 0)
       ELSE IF ins.res = "Err" /\ ~debug_assertions THEN end(new.heap, "Ok", 0)
       ELSE IF ins.res = "UB" THEN end(new.heap, "UB", 0)
       ELSE end(new.heap, "Panic", 0)

\* ART::insert: [root, heap, res, out]; res is "Ok", "Err" (out is the value
\* handed back), "Panic" or "UB"
ART_insert(root, heap, keys, value) ==
    LET d == insert_descend(root, heap, keys, RootPlace, 0)
        e == Node_extend(root, heap, d.cur)
    IN IF d.stop \in {"Panic", "UB"}
       THEN [root |-> root, heap |-> heap, res |-> d.stop, out |-> 0]
       ELSE IF e.res # "Ok"
       THEN [root |-> e.root, heap |-> e.heap, res |-> e.res, out |-> 0]
       ELSE insert_at(e.root, e.heap, keys, value, d.cur, d.depth, d.prefix_len)

\* ART::lookup: [res, out]; res is "Some" (out is the value), "None",
\* "Panic" or "UB".  Inside the loop left_or!(current.deref(), return None)
\* answers None on a terminal value, where insert's left_or!(.., break) only
\* leaves the loop.
\* a lookup that trusts the path: the terminal value reached is answered
\* without a look at its key
RECURSIVE lookup_descend_anykey(_, _, _, _)
lookup_descend_anykey(heap, keys, current, depth) ==
    LET ans(res, out) == [res |-> res, out |-> out]
        node == heap[current.addr]
        at == depth + node.header.len
        idx == NodeOps_lookup(current.tag, node, keys[at + 1])
    IN IF depth < Len(keys)
       THEN IF current.tag = "Value" THEN ans("None", 0)
            ELSE IF ~WellTagged(heap, current) THEN ans("UB", 0)
            ELSE IF at >= Len(keys) THEN ans("Panic", 0)
            ELSE IF idx = NotFound THEN ans("None", 0)
            ELSE lookup_descend_anykey(heap, keys, node.children[idx], at + 1)
       ELSE IF current.tag # "Value" THEN ans("None", 0)
            ELSE IF ~WellTagged(heap, current) THEN ans("UB", 0)
            ELSE ans("Some", node.value)

RECURSIVE lookup_descend(_, _, _, _)
lookup_descend(heap, keys, current, depth) ==
    LET ans(res, out) == [res |-> res, out |-> out]
        node == heap[current.addr]
        at == depth + node.header.len
        idx == NodeOps_lookup(current.tag, node, keys[at + 1])
    IN IF depth < Len(keys)
       THEN IF current.tag = "Value" THEN ans("None", 0)
            ELSE IF ~WellTagged(heap, current) THEN ans("UB", 0)
            ELSE IF at >= Len(keys) THEN ans("Panic", 0)
            ELSE IF idx = NotFound THEN ans("None", 0)
            ELSE lookup_descend(heap, keys, node.children[idx], at + 1)
       ELSE IF current.tag # "Value" THEN ans("None", 0)
            ELSE IF ~WellTagged(heap, current) THEN ans("UB", 0)
            ELSE IF node.key = keys THEN ans("Some", node.value)
            ELSE ans("None", 0)

ART_lookup(root, heap, keys) == lookup_descend(heap, keys, root, 0)

\* The handle the loop of ART::lookup stands on when it is left, by the end
\* of the key or by return None: res is "Ok" then, "Panic" or "UB" otherwise
RECURSIVE lookup_reach(_, _, _, _)
lookup_reach(heap, keys, current, depth) ==
    LET at(res) == [res |-> res, current |-> current]
        node == heap[current.addr]
        skip == depth + node.header.len
        idx == NodeOps_lookup(current.tag, node, keys[skip + 1])
    IN IF depth >= Len(keys) \/ current.tag = "Value" THEN at("Ok")
       ELSE IF ~WellTagged(heap, current) THEN at("UB")
       ELSE IF skip >= Len(keys) THEN at("Panic")
       ELSE IF idx = NotFound THEN at("Ok")
       ELSE lookup_reach(heap, keys, node.children[idx], skip + 1)

\* ART::remove: todo!()
ART_remove(root, heap, keys) ==
    [root |-> root, heap |-> heap, res |-> "Panic", out |-> 0]

\* Dropping the tree: neither ART nor Node implements Drop and their fields
\* are a usize and PhantomData, so no box is freed.
ART_drop(root, heap) == heap

\* ------------------------------------------------------------ the machine

VARIABLES
    root,      \* ART.root
    heap,      \* the boxes allocated and not freed, by address
    status,    \* "running", "panicked", "ub" or "dropped"
    ref_map,   \* the BTreeMap of stress_sequential: key -> value, 0 for no entry
    log,       \* the inserts of keys ref_map did not hold, with their results
    last       \* the last call and what it returned

vars == <<root, heap, status, ref_map, log, last>>

Call(op, key, value, res, out, present) ==
    [op |-> op, key |-> key, value |-> value, res |-> res, out |-> out,
     present |-> present]

\* how a call that ended with res leaves the program
StatusAfter(res) ==
    CASE res = "Panic" -> "panicked"
      [] res = "UB" -> "ub"
      [] OTHER -> "running"

Init ==
    /\ root = ART_new.node
    /\ heap = ART_new.heap
    /\ status = "running"
    /\ ref_map = [k \in Keys |-> 0]
    /\ log = <<>>
    /\ last = Call("new", KeyEmpty, 0, "Ok", 0, FALSE)

\* map.insert(&key, value); the harness enters a key it did not hold in ref_map
Insert(key, value) ==
    LET r == ART_insert(root, heap, encode(key), value)
        fresh == ref_map[key] = 0
    IN /\ status = "running"
       /\ fresh => Len(log) < MaxOps
       /\ root' = r.root
       /\ heap' = r.heap
       /\ status' = StatusAfter(r.res)
       /\ ref_map' = IF fresh THEN [ref_map EXCEPT ![key] = value] ELSE ref_map
       /\ log' = IF fresh
                 THEN Append(log, [key |-> key, value |-> value, res |-> r.res])
                 ELSE log
       /\ last' = Call("insert", key, value, r.res, r.out, ~fresh)

\* map.lookup(&key)
Lookup(key) ==
    LET r == ART_lookup(root, heap, encode(key))
    IN /\ status = "running"
       /\ status' = StatusAfter(r.res)
       /\ last' = Call("lookup", key, 0, r.res, r.out, ref_map[key] # 0)
       /\ UNCHANGED <<root, heap, ref_map, log>>

\* ref_map.remove(&key), then map.remove(&key)
Remove(key) ==
    LET r == ART_remove(root, heap, encode(key))
    IN /\ status = "running"
       /\ root' = r.root
       /\ heap' = r.heap
       /\ status' = StatusAfter(r.res)
       /\ ref_map' = [ref_map EXCEPT ![key] = 0]
       /\ last' = Call("remove", key, 0, r.res, r.out, ref_map[key] # 0)
       /\ UNCHANGED log

\* the map goes out of scope
Drop ==
    /\ status = "running"
    /\ heap' = ART_drop(root, heap)
    /\ status' = "dropped"
    /\ last' = Call("drop", KeyEmpty, 0, "Ok", 0, FALSE)
    /\ UNCHANGED <<root, ref_map, log>>

InsertStep == \E key \in InsertKeys, value \in Values : Insert(key, value)

LookupStep == \E key \in Keys : Lookup(key)

RemoveStep == \E key \in Keys : Remove(key)

Next == InsertStep \/ LookupStep \/ RemoveStep \/ Drop

Spec == Init /\ [][Next]_vars

\* ----------------------------------------------------- one node under test

\* most calls on the node under test, per run
MaxNodeOps == 2

\* the key bytes handed to the calls on the node under test
NodeBytes == {0, 1, 2, 200}

\* a header written through header_mut: prefix "ab"
TestHeader ==
    [len |-> 2, prefix |-> [i \in 0..(PREFIX_LEN - 1) |-> IF i < 2 THEN 97 + i ELSE Uninit]]

\* the handle of the n-th terminal value handed to a node; no two calls hand
\* over the same handle
ChildHandle(n) == [addr |-> 1000 + n, tag |-> "Value"]

\* the i-th byte a node is filled with: 1, 3, 5, ...
FillByte(i) == 2 * i + 1

\* node after the inserts number lo .. hi - 1 of a fill, one after the other
\* (the range is halved, and the first half is worked out before the second
\* is begun, to keep the evaluation shallow)
RECURSIVE filled(_, _, _)
filled(node, lo, hi) ==
    IF hi <= lo THEN node
    ELSE IF hi = lo + 1
         THEN NodeOps_insert(node.kind, node, FillByte(lo), ChildHandle(FillByte(lo))).node
    ELSE LET mid == (lo + hi) \div 2
             half == filled(node, lo, mid)
         IN IF half.kind = node.kind THEN filled(half, mid, hi) ELSE half

\* Node48::default() after n inserts
Node48_filled(n) == filled([Node48_default EXCEPT !.header = TestHeader], 0, n)

\* Node256::default() after n inserts
Node256_filled(n) == filled([Node256_default EXCEPT !.header = TestHeader], 0, n)

\* a Node16 and a Node4 get their first children from a conversion
Node16_filled(n) == Node16_from_Node48(Node48_filled(n))

Node4_filled(n) == Node4_from_Node16(Node16_filled(n))

\* the nodes a run starts from: empty, partly filled, at and next to the
\* counts is_full and is_shrinkable compare with
StartNodes ==
    {Node4_filled(n) : n \in {0, 3, 4}}
    \cup {Node16_filled(n) : n \in {0, 4, 5, 16}}
    \cup {Node48_filled(n) : n \in {0, 3, 16, 17, 48}}
    \cup {Node256_filled(n) : n \in {0, 3, 48, 49}}

\* the node behind the handle under test
UnderTest == heap[root.addr]

\* lookup's answer None
NoChild == [addr |-> NotFound, tag |-> "None"]

\* NodeOps::lookup of the node's own type: the child handle lookup refers to
ChildOf(node, key) ==
    LET index == NodeOps_lookup(node.kind, node, key)
    IN IF index = NotFound THEN NoChild ELSE node.children[index]

\* Node::new(node, its type): the handle under test in root, its box in heap
NodeInit ==
    /\ \E node \in StartNodes :
        /\ root = Node_new(<<>>, node, node.kind).node
        /\ heap = Node_new(<<>>, node, node.kind).heap
    /\ status = "running"
    /\ ref_map = [k \in {} |-> 0]
    /\ log = <<>>
    /\ last = Call("new", 0, Node_null, "Ok", Node_null, FALSE)

\* what every call on the node under test does to the run
NodeCalled(op, key, h, res, out) ==
    /\ status' = StatusAfter(res)
    /\ log' = Append(log, [op |-> op, key |-> key, res |-> res])
    /\ last' = Call(op, key, h, res, out, ChildOf(UnderTest, key) # NoChild)
    /\ UNCHANGED ref_map

\* node.insert(key, h) with a new handle h
NodeInsert(key) ==
    LET h == ChildHandle(256 + Len(log))
        r == NodeOps_insert(UnderTest.kind, UnderTest, key, h)
    IN /\ status = "running"
       /\ Len(log) < MaxNodeOps
       /\ heap' = [heap EXCEPT ![root.addr] = r.node]
       /\ root' = root
       /\ NodeCalled("insert", key, h, r.res, IF r.res = "Err" THEN h ELSE Node_null)

\* node.update(key, h) with a new handle h
NodeUpdate(key) ==
    LET h == ChildHandle(256 + Len(log))
        r == NodeOps_update(UnderTest.kind, UnderTest, key, h)
    IN /\ status = "running"
       /\ Len(log) < MaxNodeOps
       /\ heap' = [heap EXCEPT ![root.addr] = r.node]
       /\ root' = root
       /\ NodeCalled("update", key, h, r.res, r.out)

\* node.remove(key)
NodeRemove(key) ==
    LET r == NodeOps_remove(UnderTest.kind, UnderTest, key)
    IN /\ status = "running"
       /\ Len(log) < MaxNodeOps
       /\ heap' = [heap EXCEPT ![root.addr] = r.node]
       /\ root' = root
       /\ NodeCalled("remove", key, Node_null, r.res, r.out)

\* node.lookup(key)
NodeLookup(key) ==
    LET child == ChildOf(UnderTest, key)
    IN /\ status = "running"
       /\ Len(log) < MaxNodeOps
       /\ UNCHANGED <<root, heap>>
       /\ NodeCalled("lookup", key, Node_null,
                     IF child = NoChild THEN "None" ELSE "Some", child)

\* handle.extend()
NodeExtend ==
    LET r == Node_extend(root, heap, RootPlace)
    IN /\ status = "running"
       /\ Len(log) < MaxNodeOps
       /\ root' = r.root
       /\ heap' = r.heap
       /\ NodeCalled("extend", 0, Node_null, r.res, Node_null)

\* handle.shrink()
NodeShrink ==
    LET r == Node_shrink(root, heap, RootPlace)
    IN /\ status = "running"
       /\ Len(log) < MaxNodeOps
       /\ root' = r.root
       /\ heap' = r.heap
       /\ NodeCalled("shrink", 0, Node_null, r.res, Node_null)

NodeInsertStep == \E key \in NodeBytes : NodeInsert(key)

NodeUpdateStep == \E key \in NodeBytes : NodeUpdate(key)

NodeRemoveStep == \E key \in NodeBytes : NodeRemove(key)

NodeLookupStep == \E key \in NodeBytes : NodeLookup(key)

NodeNext ==
    \/ NodeInsertStep
    \/ NodeUpdateStep
    \/ NodeRemoveStep
    \/ NodeLookupStep
    \/ NodeExtend
    \/ NodeShrink

NodeSpec == NodeInit /\ [][NodeNext]_vars

\* -------------------------------------------- a tree with a compressed path

\* most inserts into the tree with a compressed path, per run
MaxPathOps == 1

\* header lengths of the node with the compressed path: none, short, the
\* whole inline buffer, one byte more than the inline buffer
PathLens == {0, 2, PREFIX_LEN, PREFIX_LEN + 1}

\* the key byte that leads from the root to the node with the compressed
\* path: 'x'
PathByte == 120

\* compressed byte number i of the path: 'A', 'B', ...
PrefixByte(i) == 65 + i

\* a key byte no path and no child has: '!'
OtherByte == 33

\* 'x', the n compressed bytes, then tail
PathKey(n, tail) == <<PathByte>> \o [i \in 1..n |-> PrefixByte(i - 1)] \o tail

\* keys with key byte number i (from 0) replaced
Damaged(keys, i) == [keys EXCEPT ![i + 1] = OtherByte]

\* the keys handed to a tree whose compressed path has n bytes: the two
\* stored keys, a key to a child the node does not have, keys that leave the
\* path at its first and at its last byte, keys that end on the path, and
\* the empty key
PathKeys(n) ==
    {PathKey(n, <<97>>), PathKey(n, <<98>>), PathKey(n, <<99>>),
     PathKey(n, <<>>), <<PathByte>>, KeyEmpty}
    \cup (IF n > 0
          THEN {Damaged(PathKey(n, <<97>>), 1), Damaged(PathKey(n, <<97>>), n),
                PathKey(n - 1, <<>>)}
          ELSE {})

\* a header written through header_mut: the first n compressed bytes, as
\* many of them as the inline buffer takes
PathHeader(n) ==
    [len |-> n,
     prefix |-> [i \in 0..(PREFIX_LEN - 1) |-> IF i < n THEN PrefixByte(i) ELSE Uninit]]

\* the address of the node with the compressed path
PathAddr == 2

\* ART::new, then under byte 'x' of the root a Node48 with a compressed path
\* of n bytes and two terminal values, for "x<path>a" -> 1 and "x<path>b" -> 2
PathTree(n) ==
    LET t == ART_new
        inner == Node_new(t.heap, [Node48_default EXCEPT !.header = PathHeader(n)], "Node48")
        va == Node_new(inner.heap, NodeV_new(PathKey(n, <<97>>), 1), "Value")
        vb == Node_new(va.heap, NodeV_new(PathKey(n, <<98>>), 2), "Value")
        with_a == Node48_insert(inner.heap[inner.node.addr], 97, va.node).node
        with_b == Node48_insert(with_a, 98, vb.node).node
        top == Node256_insert(t.heap[t.node.addr], PathByte, inner.node).node
    IN [root |-> t.node,
        heap |-> [vb.heap EXCEPT ![t.node.addr] = top, ![inner.node.addr] = with_b]]

\* the node with the compressed path
PathNode == heap[PathAddr]

\* a terminal value on the heap holds key
Stored(key) == \E a \in 1..Len(heap) : heap[a].kind = "Value" /\ heap[a].key = key

PathInit ==
    /\ \E n \in PathLens :
        /\ root = PathTree(n).root
        /\ heap = PathTree(n).heap
    /\ status = "running"
    /\ ref_map = [k \in {} |-> 0]
    /\ log = <<>>
    /\ last = Call("new", KeyEmpty, 0, "Ok", 0, FALSE)

\* map.insert(&key, value)
PathInsert(key, value) ==
    LET r == ART_insert(root, heap, encode(key), value)
    IN /\ status = "running"
       /\ Len(log) < MaxPathOps
       /\ root' = r.root
       /\ heap' = r.heap
       /\ status' = StatusAfter(r.res)
       /\ log' = Append(log, [key |-> key, value |-> value, res |-> r.res])
       /\ last' = Call("insert", key, value, r.res, r.out, Stored(key))
       /\ UNCHANGED ref_map

\* map.lookup(&key)
PathLookup(key) ==
    LET r == ART_lookup(root, heap, encode(key))
    IN /\ status = "running"
       /\ status' = StatusAfter(r.res)
       /\ last' = Call("lookup", key, 0, r.res, r.out, Stored(key))
       /\ UNCHANGED <<root, heap, ref_map, log>>

\* the depths prefix_match is called with; a descent reaches the node with
\* the compressed path at depth 1
PathDepths == 0..2

\* Node::prefix_match(&keys, node, depth) on the node with the compressed
\* path; value holds the depth, out the depth of the mismatch
PathPrefixMatch(key, depth) ==
    LET r == prefix_match(encode(key), PathNode, depth)
    IN /\ status = "running"
       /\ status' = StatusAfter(r.res)
       /\ last' = Call("prefix_match", key, depth, r.res, r.at, FALSE)
       /\ UNCHANGED <<root, heap, ref_map, log>>

PathInsertStep ==
    \E key \in PathKeys(PathNode.header.len), value \in Values : PathInsert(key, value)

PathLookupStep == \E key \in PathKeys(PathNode.header.len) : PathLookup(key)

PathPrefixMatchStep ==
    \E key \in PathKeys(PathNode.header.len), depth \in PathDepths :
        PathPrefixMatch(key, depth)

PathNext == PathInsertStep \/ PathLookupStep \/ PathPrefixMatchStep

PathSpec == PathInit /\ [][PathNext]_vars

\* ----------------------------------------------------- what the map holds

Some(value) == [res |-> "Some", out |-> value]

None == [res |-> "None", out |-> 0]

\* what lookup is to answer for key, going by the reference map
RefAnswer(key) == IF ref_map[key] # 0 THEN Some(ref_map[key]) ELSE None

\* key was handed to insert while the reference map did not hold it, and
\* insert answered Ok
Accepted(key) == \E i \in 1..Len(log) : log[i].key = key /\ log[i].res = "Ok"

LogKeys == {log[i].key : i \in 1..Len(log)}

\* every place of the tree that holds a handle
Places ==
    {RootPlace} \cup
    {[parent |-> a, idx |-> i] :
        a \in {b \in 1..Len(heap) : heap[b].kind # "Value"}, i \in Byte}

PlaceHolds(p, a) ==
    /\ p.parent # 0 => p.idx \in DOMAIN heap[p.parent].children
    /\ ReadPlace(root, heap, p).addr = a

Owners(a) == {p \in Places : PlaceHolds(p, a)}

\* ------------------------------------------------------------------ claims

\* C1: round trip.  After distinct keys were inserted into a new map, lookup
\* of each of them answers the value inserted for it and lookup of a key that
\* was never inserted answers None.
C1_RoundTrip ==
    status = "running" => \A key \in Keys : ART_lookup(root, heap, key) = RefAnswer(key)

\* C2: insert of a non-empty key answers Err(value) exactly when the key is
\* present, as the reference map has it; a key that is not present is
\* answered Ok, also when it shares its first byte with a stored key.
C2_InsertErrIffPresent ==
    (last.op = "insert" /\ last.key # KeyEmpty) =>
        /\ last.present => last.res = "Err" /\ last.out = last.value
        /\ ~last.present => last.res = "Ok"

\* C3: no overwrite.  insert(key, v2) of a key whose insert was accepted with
\* v1 answers Err(v2), and lookup(key) after it still answers v1.
C3_NoOverwrite ==
    (last.op = "insert" /\ last.present /\ Accepted(last.key)) =>
        /\ last.res = "Err"
        /\ last.out = last.value
        /\ ART_lookup(root, heap, last.key) = Some(ref_map[last.key])

\* C4: lookup answers None exactly for the absent keys: a key whose insert
\* was accepted is found with its value, whatever its length.
C4_LookupNoneIffAbsent ==
    last.op = "lookup" =>
        /\ Accepted(last.key) => last.res = "Some" /\ last.out = ref_map[last.key]
        /\ ~last.present => last.res = "None"

\* C5: remove answers Err exactly for an absent key and then leaves the map
\* as it was; for a present key it answers Ok, after which lookup of the key
\* answers None and every other key still resolves to its value.
C5_Remove ==
    last.op = "remove" =>
        /\ last.res = (IF last.present THEN "Ok" ELSE "Err")
        /\ \A key \in Keys : ART_lookup(root, heap, key) = RefAnswer(key)

\* C6: an insert that answers Err leaves the whole tree as it was: the root
\* handle and every heap object (shape, header, occupancy, children, keys,
\* values) are the same before and after the call.
C6_ErrLeavesTree ==
    [][(last'.op = "insert" /\ last'.res = "Err") => (root' = root /\ heap' = heap)]_vars

\* an insert answered Err in a tree that holds a terminal value
C6_Witness ==
    /\ last.op = "insert"
    /\ last.res = "Err"
    /\ last.out = last.value
    /\ \E a \in 1..Len(heap) : heap[a].kind = "Value"

C7Scenario ==
    <<[key |-> KeyA, value |-> 1], [key |-> KeyAB, value |-> 2],
      [key |-> KeyABC, value |-> 3]>>

FollowsC7Scenario ==
    /\ Len(log) \in 1..3
    /\ \A i \in 1..Len(log) :
        log[i].key = C7Scenario[i].key /\ log[i].value = C7Scenario[i].value

\* C7: keys that are strict prefixes of one another.  On a new map the
\* inserts of "a" -> 1, "ab" -> 2, "abc" -> 3 are answered Ok one after the
\* other, and after the three of them lookup answers 1, 2, 3 and None for
\* "abcd".
C7_PrefixKeys ==
    FollowsC7Scenario =>
        /\ \A i \in 1..Len(log) : log[i].res = "Ok"
        /\ Len(log) = 3 =>
            /\ ART_lookup(root, heap, KeyA) = Some(1)
            /\ ART_lookup(root, heap, KeyAB) = Some(2)
            /\ ART_lookup(root, heap, KeyABC) = Some(3)
            /\ ART_lookup(root, heap, KeyABCD) = None

\* C8: distinct keys with a common prefix longer than PREFIX_LEN bytes.  When
\* "abcdefghijklmnop" and "abcdefghijklmnoq" were inserted into a new map,
\* both inserts were answered Ok and lookup of each answers its own value.
C8_LongPrefix ==
    (status = "running" /\ LogKeys = {KeyLongP, KeyLongQ}) =>
        \A i \in 1..Len(log) :
            /\ log[i].res = "Ok"
            /\ ART_lookup(root, heap, log[i].key) = Some(log[i].value)

Internal == {"Node4", "Node16", "Node48", "Node256"}

\* C9: while the map is in use the root handle is not null and addresses a
\* live internal node, never a terminal value; on a new map lookup of every
\* key answers None.
C9_RootLive ==
    status = "running" =>
        /\ ~Node_is_null(root)
        /\ root.addr \in 1..Len(heap)
        /\ root.tag \in Internal
        /\ heap[root.addr].kind \in Internal
        /\ Len(log) = 0 => \A key \in Keys : ART_lookup(root, heap, key) = None

\* a lookup on a map that took an insert
C9_Witness ==
    /\ status = "running"
    /\ last.op = "lookup"
    /\ Accepted(KeyA)
    /\ Accepted(KeyB)

\* C10: every heap object is owned by exactly one handle, and once the tree
\* is dropped no node or terminal value it allocated is left on the heap.
C10_OwnedAndFreed ==
    /\ status = "running" => \A a \in 1..Len(heap) : Cardinality(Owners(a)) = 1
    /\ status = "dropped" => Len(heap) = 0

\* ------------------------------------------- claims on the node under test

\* the number of children a node of the kind has places for
Capacity(kind) ==
    CASE kind = "Node4" -> 4
      [] kind = "Node16" -> 16
      [] kind = "Node48" -> 48
      [] kind = "Node256" -> 256

\* the bytes lookup finds a child for
Occupied(node) == {b \in Byte : ChildOf(node, b) # NoChild}

\* C11: for each of the four shapes, after insert, update and remove calls
\* on a node its count len equals the number of bytes that have a child, and
\* it is never above the capacity of the shape.
C11_LenIsOccupancy ==
    (status = "running" /\ last.op \in {"insert", "update", "remove"}) =>
        /\ UnderTest.len = Cardinality(Occupied(UnderTest))
        /\ UnderTest.len <= Capacity(UnderTest.kind)

\* C12: for each shape, insert(byte, handle) on a node that is not full and
\* has no child for byte answers Ok; after it lookup(byte) finds the handle
\* and every other byte has the child it had.  This holds also for an empty
\* node and for a byte greater than every byte of a Node4 or a Node16.
C12_InsertAbsent ==
    [][(/\ last'.op = "insert"
        /\ ~last'.present
        /\ ~NodeOps_is_full(UnderTest.kind, UnderTest))
       => (/\ last'.res = "Ok"
           /\ ChildOf(UnderTest', last'.key) = last'.value
           /\ \A b \in Byte \ {last'.key} :
                ChildOf(UnderTest', b) = ChildOf(UnderTest, b))]_vars

\* C13 as it is worded: for each shape, insert(byte, handle) on a node that
\* has a child for byte hands the handle back and leaves the node as it was.
C13_InsertPresent ==
    [][(last'.op = "insert" /\ last'.present)
       => (/\ last'.res = "Err"
           /\ last'.out = last'.value
           /\ root' = root
           /\ heap' = heap)]_vars

\* C13: for each shape, insert(byte, handle) on a node that is not full and
\* has a child for byte hands the handle back and leaves the node as it was
\* (the child of byte, the count and the children of all other bytes): insert
\* never overwrites.  insert asserts that the node is not full before it
\* looks at the byte.
C13_InsertPresentNotFull ==
    [][(/\ last'.op = "insert"
        /\ last'.present
        /\ ~NodeOps_is_full(UnderTest.kind, UnderTest))
       => (/\ last'.res = "Err"
           /\ last'.out = last'.value
           /\ root' = root
           /\ heap' = heap)]_vars

\* an insert of a byte that has a child was answered on a Node48 that holds
\* children and is not full
C13_Witness ==
    /\ last.op = "insert"
    /\ last.present
    /\ last.res = "Err"
    /\ last.out = last.value
    /\ UnderTest.kind = "Node48"
    /\ UnderTest.len \in 1..47

\* the array-based representations have no gap: a Node4 or Node16 holds
\* exactly its bytes, each with a child, in its first len places; the index
\* entries of a Node48 name distinct slots below len
Compact(node) ==
    CASE node.kind \in {"Node4", "Node16"} ->
            /\ Cardinality({node.keys[i] : i \in 0..(node.len - 1)}) = node.len
            /\ {node.keys[i] : i \in 0..(node.len - 1)} = Occupied(node)
            /\ \A i \in 0..(node.len - 1) : ~Node_is_null(node.children[i])
      [] node.kind = "Node48" ->
            /\ \A b \in Occupied(node) : node.keys[b] < node.len
            /\ \A b, c \in Occupied(node) : b # c => node.keys[b] # node.keys[c]
      [] OTHER -> TRUE

\* C14: for each shape, remove(byte) on a node that has a child for byte
\* answers that child; after it lookup(byte) finds nothing, every other byte
\* has the child it had and the representation has no gap.  remove of a byte
\* that has no child answers not-found and changes nothing.  (Stated for
\* nodes that hold a child.)
C14_Remove ==
    [][(last'.op = "remove" /\ Occupied(UnderTest) # {})
       => IF last'.present
          THEN /\ last'.res = "Ok"
               /\ last'.out = ChildOf(UnderTest, last'.key)
               /\ ChildOf(UnderTest', last'.key) = NoChild
               /\ \A b \in Byte \ {last'.key} :
                    ChildOf(UnderTest', b) = ChildOf(UnderTest, b)
               /\ Compact(UnderTest')
          ELSE /\ last'.res = "Err"
               /\ root' = root
               /\ heap' = heap]_vars

\* C15: in every state, also after every extend and shrink, the tag of the
\* handle under test names the kind of the object the handle addresses.
C15_TagIsKind ==
    ~Node_is_null(root) => WellTagged(heap, root)

\* extend, or shrink, called on the handle under test now, replaces the node
Converts(op) ==
    /\ WellTagged(heap, root)
    /\ \/ /\ op = "extend"
          /\ root.tag \in {"Node4", "Node16", "Node48"}
          /\ NodeOps_is_full(root.tag, UnderTest)
       \/ /\ op = "shrink"
          /\ root.tag \in {"Node16", "Node48", "Node256"}
          /\ NodeOps_is_shrinkable(root.tag, UnderTest)

\* C16: each of the six conversions (4 -> 16, 16 -> 48, 48 -> 256, 256 -> 48,
\* 48 -> 16, 16 -> 4) yields a node with the header, the count and the
\* children of the old node: for every byte lookup finds the same child in
\* the new node as in the old one, no child handle is duplicated or dropped.
C16_ConversionKeeps ==
    [][(last'.op \in {"extend", "shrink"} /\ Converts(last'.op))
       => (/\ last'.res = "Ok"
           /\ UnderTest' # UnderTest
           /\ UnderTest'.header = UnderTest.header
           /\ UnderTest'.len = UnderTest.len
           /\ \A b \in Byte : ChildOf(UnderTest', b) = ChildOf(UnderTest, b))]_vars

\* the number of children the next smaller shape has places for
SmallerCapacity(kind) ==
    CASE kind = "Node256" -> 48
      [] kind = "Node48" -> 16
      [] kind = "Node16" -> 4

\* C17: whenever shrink converts a node, the node holds no more children
\* than the smaller shape has places for (48 for 256 -> 48, 16 for 48 -> 16,
\* 4 for 16 -> 4): is_shrinkable is true only at or below that number.
C17_ShrinkFits ==
    [][(last'.op = "shrink" /\ Converts("shrink"))
       => Cardinality(Occupied(UnderTest)) <= SmallerCapacity(UnderTest.kind)]_vars

\* the next larger and the next smaller shape
Larger(kind) ==
    CASE kind = "Node4" -> "Node16"
      [] kind = "Node16" -> "Node48"
      [] kind = "Node48" -> "Node256"

Smaller(kind) ==
    CASE kind = "Node256" -> "Node48"
      [] kind = "Node48" -> "Node16"
      [] kind = "Node16" -> "Node4"

\* the node under test is one extend, or shrink, is to replace
Triggered(op) ==
    \/ /\ op = "extend"
       /\ UnderTest.kind # "Node256"
       /\ NodeOps_is_full(UnderTest.kind, UnderTest)
    \/ /\ op = "shrink"
       /\ UnderTest.kind # "Node4"
       /\ NodeOps_is_shrinkable(UnderTest.kind, UnderTest)

\* C18: a shape changes one step at a time and only on its trigger.  extend
\* replaces a node only when is_full is true, by a node of the next larger
\* shape; shrink replaces a node only when is_shrinkable is true, by a node
\* of the next smaller shape, and never a Node4; when the predicate is false
\* the handle and its node stay as they are.  (Stated for nodes whose
\* children fit the shape they are converted to; C17 is about the others.)
C18_OneStepOnTrigger ==
    [][(/\ last'.op \in {"extend", "shrink"}
        /\ Cardinality(Occupied(UnderTest)) <= Capacity(UnderTest.kind)
        /\ last'.op = "shrink" /\ Triggered("shrink")
                => Cardinality(Occupied(UnderTest)) <= SmallerCapacity(UnderTest.kind))
       => (/\ last'.res = "Ok"
           /\ IF Triggered(last'.op)
              THEN UnderTest'.kind = (IF last'.op = "extend" THEN Larger(UnderTest.kind)
                                      ELSE Smaller(UnderTest.kind))
              ELSE root' = root /\ heap' = heap)]_vars

\* ------------------------------------------------ claims on growing a tree

\* C19: growing a Node256 is never met at run time.  In no state reached by
\* new, insert and lookup does the next insert call extend on a Node256
\* whose is_full is true: no Node256 of the tree is full, and extend on the
\* handle where the descent of any key stops does not end in "Node256 cannot
\* be extended".
C19_NoExtendOfFull256 ==
    status = "running" =>
        /\ \A a \in 1..Len(heap) :
                heap[a].kind = "Node256" => ~Node256_is_full(heap[a])
        /\ \A key \in InsertKeys :
                LET d == insert_descend(root, heap, encode(key), RootPlace, 0)
                IN d.stop \notin {"Panic", "UB"}
                      => Node_extend(root, heap, d.cur).res = "Ok"

\* an insert called extend on the Node256 of the root and stored a second
\* child in it
C19_Witness ==
    /\ status = "running"
    /\ last.op = "insert"
    /\ last.res = "Ok"
    /\ root.tag = "Node256"
    /\ Cardinality({b \in Byte : ~Node_is_null(heap[root.addr].children[b])}) >= 2

\* C20: grow monotonicity.  Over inserts and lookups no node comes to be of
\* a shape of smaller capacity: the handle at a place that held an internal
\* node addresses a node of at least that capacity after the call; and after
\* every insert each node has at most as many children as its shape has
\* places for.  (A call that leaves root and heap as they were keeps both.)
C20_GrowMonotone ==
    [][last'.op \in {"insert", "lookup"}
       => \/ root' = root /\ heap' = heap
          \/ /\ \A p \in Places :
                LET h == ReadPlace(root, heap, p)
                    g == ReadPlace(root', heap', p)
                IN (h.tag \in Internal /\ WellTagged(heap, h))
                      => (/\ g.addr \in 1..Len(heap')
                          /\ heap'[g.addr].kind \in Internal
                          /\ Capacity(heap'[g.addr].kind) >= Capacity(heap[h.addr].kind))
             /\ \A a \in 1..Len(heap') :
                heap'[a].kind \in Internal
                    => Cardinality(Occupied(heap'[a])) <= Capacity(heap'[a].kind)]_vars

\* an insert was answered Ok on a tree whose root has taken two children
C20_Witness ==
    /\ status = "running"
    /\ last.op = "insert"
    /\ last.res = "Ok"
    /\ heap[root.addr].kind \in Internal
    /\ Cardinality(Occupied(heap[root.addr])) = 2
    /\ Len(log) = 2

\* --------------------------------------------- claims on the tree engine

\* the descent of ART::insert for keys ends on a terminal value
LandsOnValue(keys) ==
    LET d == insert_descend(root, heap, keys, RootPlace, 0)
    IN /\ d.stop \in {"end", "value"}
       /\ ReadPlace(root, heap, d.cur).tag = "Value"

C22_SameDescent ==
    status = "running" =>
        \A key \in PathKeys(PathNode.header.len) :
            LET d == insert_descend(root, heap, encode(key), RootPlace, 0)
                l == lookup_reach(heap, encode(key), root, 0)
            IN (d.stop \in {"end", "value", "nochild"} /\ l.res = "Ok")
                  => ReadPlace(root, heap, d.cur) = l.current

\* C23: prefix split.  When the loop of insert stops at an internal node of
\* which only the first matched_len bytes of the compressed path matched,
\* then after the insert the place of that node holds a new Node4 whose path
\* is key[depth..depth+matched_len] and which has two children: the old node
\* under the first byte of the rest of its path and the new terminal value
\* under key[depth+matched_len]; the old node's path is the rest, its length
\* less by matched_len.
C23_PrefixSplit ==
    [][(/\ last'.op = "insert"
        /\ insert_descend(root, heap, encode(last'.key), RootPlace, 0).stop = "mismatch")
       => LET keys == encode(last'.key)
              d == insert_descend(root, heap, keys, RootPlace, 0)
              matched_len == d.prefix_len
              old == ReadPlace(root, heap, d.cur)
              header == heap[old.addr].header
              new == ReadPlace(root', heap', d.cur)
              inter == heap'[new.addr]
              value == ChildOf(inter, keys[d.depth + matched_len + 1])
          IN /\ last'.res = "Ok"
             /\ new.tag = "Node4"
             /\ inter.kind = "Node4"
             /\ inter.header.len = matched_len
             /\ \A i \in 0..(matched_len - 1) :
                    inter.header.prefix[i] = keys[d.depth + i + 1]
             /\ Cardinality(Occupied(inter)) = 2
             /\ ChildOf(inter, header.prefix[matched_len]) = old
             /\ value.tag = "Value"
             /\ heap'[value.addr] = NodeV_new(keys, last'.value)
             /\ heap'[old.addr].header.len = header.len - matched_len
             /\ \A i \in 0..(header.len - matched_len - 1) :
                    heap'[old.addr].header.prefix[i] = header.prefix[i + matched_len]]_vars

\* C24: for a node whose header length L is at most PREFIX_LEN and a key of
\* at least depth + L bytes, prefix_match answers Ok exactly when
\* key[depth..depth+L] equals the first L inline bytes, and otherwise
\* Err(depth + i) for the smallest i with key[depth+i] # inline[i]; the call
\* leaves the node (root and heap) as it was.
C24_PrefixMatchInline ==
    [][(/\ last'.op = "prefix_match"
        /\ PathNode.header.len <= PREFIX_LEN
        /\ Len(encode(last'.key)) >= last'.value + PathNode.header.len)
       => LET keys == encode(last'.key)
              depth == last'.value
              header == PathNode.header
              differ == {i \in 0..(header.len - 1) : keys[depth + i + 1] # header.prefix[i]}
          IN /\ differ = {} => last'.res = "Ok"
             /\ differ # {} =>
                    /\ last'.res = "Err"
                    /\ \E i \in differ :
                        /\ \A j \in differ : i <= j
                        /\ last'.out = depth + i
             /\ root' = root
             /\ heap' = heap]_vars

\* prefix_match at depth 1 on a path that fills the inline buffer answered
\* the depth of the key's only differing byte, the last of the path
C24_Witness ==
    /\ last.op = "prefix_match"
    /\ PathNode.header.len = PREFIX_LEN
    /\ last.value = 1
    /\ last.key = Damaged(PathKey(PREFIX_LEN, <<97>>), PREFIX_LEN)
    /\ last.res = "Err"
    /\ last.out = PREFIX_LEN

\* C25: for a node whose header length L exceeds PREFIX_LEN, prefix_match
\* compares the first PREFIX_LEN bytes with the inline buffer and the bytes
\* [depth+PREFIX_LEN, depth+L) with the key of a terminal value beneath the
\* node, and comes back with Ok when all L bytes match, else with Err(depth
\* of the first byte that differs).
C25_PrefixMatchLong ==
    (/\ last.op = "prefix_match"
     /\ PathNode.header.len > PREFIX_LEN
     /\ Len(encode(last.key)) >= last.value + PathNode.header.len)
    => LET keys == encode(last.key)
           depth == last.value
           below == CHOOSE a \in 1..Len(heap) :
                        /\ heap[a].kind = "Value"
                        /\ ChildOf(PathNode, heap[a].key[Len(heap[a].key)]).addr = a
           differ == {i \in 0..(PathNode.header.len - 1) :
                         keys[depth + i + 1] #
                             (IF i < PREFIX_LEN THEN PathNode.header.prefix[i]
                              ELSE heap[below].key[depth + i + 1])}
       IN /\ differ = {} => last.res = "Ok"
          /\ differ # {} =>
                 /\ last.res = "Err"
                 /\ \E i \in differ :
                     /\ \A j \in differ : i <= j
                     /\ last.out = depth + i

\* C26: lookup never answers a wrong value.  In every reachable state, when
\* lookup(key) answers Some(v), a terminal value of the tree holds exactly
\* the bytes of key and v is its value; and when the descent ends on a
\* terminal value whose key differs from the key asked for, the answer is
\* None.
C26_NoWrongValue ==
    status = "running" =>
        \A key \in Keys :
            LET r == ART_lookup(root, heap, encode(key))
                l == lookup_reach(heap, encode(key), root, 0)
            IN /\ r.res = "Some" =>
                    \E a \in 1..Len(heap) :
                        /\ heap[a].kind = "Value"
                        /\ heap[a].key = encode(key)
                        /\ heap[a].value = r.out
                        /\ Owners(a) # {}
               /\ (/\ l.res = "Ok"
                   /\ l.current.tag = "Value"
                   /\ heap[l.current.addr].key # encode(key)) => r = None

\* lookup of "a" ended on the terminal value of "ab" and answered None, in a
\* tree where lookup of "b" answers the value stored for "b"
C26_Witness ==
    /\ status = "running"
    /\ last.op = "lookup"
    /\ last.key = KeyA
    /\ last.res = "None"
    /\ Accepted(KeyAB)
    /\ lookup_reach(heap, encode(KeyA), root, 0).current.tag = "Value"
    /\ Accepted(KeyB)
    /\ ART_lookup(root, heap, encode(KeyB)) = Some(ref_map[KeyB])

\* C27: insert and lookup always come back with an ordinary result.  For
\* every key, the empty key and keys shorter than the compressed path of a
\* node they reach included, and every reachable tree, insert answers Ok or
\* Err and lookup answers Some or None; neither aborts on a read past the
\* end of the key bytes.
C27_OrdinaryResults ==
    /\ last.op = "insert" => last.res \in {"Ok", "Err"}
    /\ last.op = "lookup" => last.res \in {"Some", "None"}

\* C28: structural invariant of the map interface.  After any sequence of
\* new, insert and lookup the root is a Node256 with header length 0 and
\* every child of the root is a terminal value; no Node4, Node16 or Node48 is
\* ever created, the grow step never takes effect (the root is the one
\* internal node and is never full) and no insert takes the prefix-split
\* branch (no descent stops on a mismatch or with a matched length other than
\* the header's).
C28_RootAndTerminals ==
    /\ root.tag = "Node256"
    /\ root.addr = ART_new.node.addr
    /\ heap[root.addr].kind = "Node256"
    /\ heap[root.addr].header.len = 0
    /\ ~NodeOps_is_full(root.tag, heap[root.addr])
    /\ \A b \in Byte :
        LET child == heap[root.addr].children[b]
        IN ~Node_is_null(child) =>
            /\ child.tag = "Value"
            /\ child.addr \in 1..Len(heap)
            /\ heap[child.addr].kind = "Value"
    /\ \A a \in 1..Len(heap) : a # root.addr => heap[a].kind = "Value"
    /\ status = "running" =>
        \A key \in InsertKeys :
            LET d == insert_descend(root, heap, encode(key), RootPlace, 0)
                h == ReadPlace(root, heap, d.cur)
            IN /\ d.stop \in {"end", "value", "nochild"}
               /\ h.tag # "Value" => d.prefix_len = heap[h.addr].header.len

\* two inserts were accepted and a third key was turned away: the root has
\* two terminal values for children
C28_Witness ==
    /\ status = "running"
    /\ last.op = "insert"
    /\ last.res = "Err"
    /\ Len(log) = 2
    /\ \A i \in 1..2 : log[i].res = "Ok"
    /\ Cardinality({b \in Byte : ~Node_is_null(heap[root.addr].children[b])}) = 2
    /\ Len(heap) = 3

====
